---- MODULE Spec2Model ----
(***************************************************************************)
(* Multi-variation streaming orchestration of the LINE content generator.  *)
(*                                                                         *)
(*   Stream Relay       pages/api/generate-line-content-stream (GET)       *)
(*   Generation Session ContentGenerator.generateLineContentStream         *)
(*   Client Orchestrator components/ContentStreamingDisplay.tsx            *)
(*                                                                         *)
(* Texts are sequences of tokens; a token delta of the backend is a text   *)
(* of one-character tokens, so Len of an accumulated text is its length in *)
(* characters.  A progress value p is held as the integer p * Scale,       *)
(* because the progress computed from the text length is length / 15.      *)
(***************************************************************************)
EXTENDS Integers, Sequences, FiniteSets, TLC

\* ------------------------------------------------------------------ bounds
\* number of events one backend stream delivers before it ends or fails
MaxBackendEvents == 2
\* number of selected images given to formatAsMarkdown
MaxImages == 2
\* number of backend calls of one generateLineContent call that are observed
MaxBackendCalls == 6
\* number of messages one channel delivers when any server is at its far end
MaxWireEvents == 2
\* length of the long token delta, enough for the progress cap to apply
LongDeltaLen == 600
\* number of times the streaming effect is run again while mounted
MaxRestarts == 1
\* number of EventSources and settle timers one component creates
MaxSources == 5
\* length of one part of the path of a scraped URL
MaxPartLen == 3

\* ------------------------------------------------------- program constants
Scale == 15
NumVariations == 3
MinContentLength == 50
\* temperature: 0.7 + (i * 0.1), held in tenths
TemperatureBase == 7
TemperatureStep == 1
\* retry settings of the API client
MAX_RETRIES == 2
RETRY_DELAY == 1000
\* the status that makes scrape() return fallback content
Forbidden == 403

Indexes == 0 .. (NumVariations - 1)

Min(a, b) == IF a < b THEN a ELSE b

\* ---------------------------------------------------------------- messages
\* One message of the event stream: "data: <payload>\n\n".  data is "json"
\* for a JSON.stringify-ed event and "[DONE]" for the sentinel.
NoMsg == [data |-> "none"]
Sentinel == [data |-> "[DONE]"]
Event(t) == [data |-> "json", type |-> t]
ErrorEvent(src) == [data |-> "json", type |-> "error", error |-> src]
DeltaEvent(d) == [data |-> "json", type |-> "response.output_text.delta", delta |-> d]

\* token deltas the backend can send
Deltas == { <<"a">>, <<"b", "c">> }

\* events of the backend stream (openai.responses.create with stream: true)
BackendEvents ==
    { Event("response.created"), Event("response.in_progress"),
      Event("web_search_call"), Event("response.output_text.done"),
      Event("response.completed") }
    \cup { DeltaEvent(d) : d \in Deltas }

VARIABLES
    \* --- one invocation of the Stream Relay, observed on its own
    relay,              \* control state and locals of the handler
    out,                \* messages written with res.write, in order
    calls,              \* collaborator calls made and their outcomes, in order
    ended,              \* number of res.end() calls
    openaiApiKey,       \* server environment: OPENAI_API_KEY is set
    \* --- the Client Orchestrator (one mounted ContentStreamingDisplay)
    started,            \* the streaming effect has run
    props,              \* scrapedContent.title, selectedImages, apiRequest.blog_url
    variationStates,    \* React state: status and progress per index
    streamedContents,   \* React state: displayed text per index
    completedVariations,\* React state: completion flag per index
    capContents,        \* streamedContents as captured by the running closures
    capCompleted,       \* completedVariations as captured by the running closures
    sources,            \* every EventSource created, with its handler closure
    eventSourceRefs,    \* eventSourceRefs.current: index -> source (0 = null)
    timers,             \* pending setTimeout(generateVariation(k), 500) per k
    isLoading,          \* React state isLoading
    cancelled,          \* handleCancelStream has run
    completeCalls,      \* arguments of the onStreamComplete calls, in order
    errorCalls,         \* number of onStreamError calls
    \* --- one call of a function or method, observed on its own
    args,               \* the arguments of the call
    result              \* what the call has done so far

relayVars == <<relay, out, calls, ended>>
envVars == <<openaiApiKey>>
clientVars == <<started, props, variationStates, streamedContents,
                completedVariations, capContents, capCompleted, sources,
                eventSourceRefs, timers, isLoading, cancelled,
                completeCalls, errorCalls>>
callVars == <<args, result>>
vars == <<relay, out, calls, ended, openaiApiKey, started, props, variationStates,
          streamedContents, completedVariations, capContents, capCompleted,
          sources, eventSourceRefs, timers, isLoading, cancelled,
          completeCalls, errorCalls, args, result>>

(***************************************************************************)
(* Stream Relay and Generation Session                                     *)
(***************************************************************************)

\* req.query.requestData as the handler sees it
RequestData == { "missing", "notstring", "badjson", "json" }

\* The invocation before its first statement.  data: the requestData query
\* value; blogUrl: parsedData.blog_url is a string; useWeb: use_web_search
\* after defaulting; prescraped: parsedData.scraped_content carries a
\* non-empty title and content.
NewRelay(data, blogUrl, useWeb, prescraped) ==
    [pc |-> "start", data |-> data, blogUrl |-> blogUrl, useWeb |-> useWeb,
     prescraped |-> prescraped, nEv |-> 0]

\* The frame of an invocation that has returned, or that is not observed.
IdleRelay ==
    [pc |-> "ended", data |-> "json", blogUrl |-> TRUE, useWeb |-> TRUE,
     prescraped |-> FALSE, nEv |-> 0]

\* what a step does besides writing: nothing, a collaborator call with its
\* outcome, an exception of the generation session, or res.end()
Call(f) == [fn |-> f]
NoCall == Call("none")
ScrapeCall(o) == [fn |-> "scrape", outcome |-> o]

\* One step of the handler: the control state it reaches, the message it
\* writes (NoMsg if none) and the call it makes (NoCall if none).
Step(r, pc, msg, call) == [next |-> [r EXCEPT !.pc = pc], write |-> msg, call |-> call]

\* variant of RelayStart: the API key is looked at only by the generator,
\* after process_start has been written
RelayStart_KeyUnchecked(r) ==
    IF r.pc # "start" THEN {}
    ELSE IF r.data \in {"missing", "notstring"}
         THEN { Step(r, "end", ErrorEvent("request"), NoCall) }
    ELSE IF r.data = "badjson"
         THEN { Step(r, "outer_catch", NoMsg, NoCall) }
    ELSE { Step(r, "scrape", Event("process_start"), NoCall) }

\* variant of RelayStart: the return after res.end() of the API-key check
\* is missing, so the handler ends the response and goes on
RelayStart_NoReturn(r) ==
    IF r.pc # "start" THEN {}
    ELSE IF r.data \in {"missing", "notstring"}
         THEN { Step(r, "end", ErrorEvent("request"), NoCall) }
    ELSE IF r.data = "badjson"
         THEN { Step(r, "outer_catch", NoMsg, NoCall) }
    ELSE IF ~openaiApiKey
         THEN { Step(r, "scrape", ErrorEvent("apikey"), Call("end")) }
    ELSE { Step(r, "scrape", Event("process_start"), NoCall) }

\* res.writeHead, request validation, process_start
RelayStart(r) ==
    IF r.pc # "start" THEN {}
    ELSE IF r.data \in {"missing", "notstring"}
         THEN { Step(r, "end", ErrorEvent("request"), NoCall) }
    ELSE IF r.data = "badjson"
         THEN { Step(r, "outer_catch", NoMsg, NoCall) }
    ELSE IF ~openaiApiKey
         THEN { Step(r, "end", ErrorEvent("apikey"), NoCall) }
    ELSE { Step(r, "scrape", Event("process_start"), NoCall) }

\* what scraper.scrape() can do: resolve with content of at least
\* MinContentLength characters, with shorter content, with none, or throw;
\* without a blog_url there is nothing to fetch and it throws
ScrapeOutcomes(r) ==
    IF r.blogUrl THEN { "long", "short", "empty", "throw" } ELSE { "throw" }

\* the scrape step: try { scrape; pad short content; write scraped_content }
\* catch { placeholder (reads blog_url.split); write scraping_warning }
RelayScrape(r) ==
    IF r.pc # "scrape" THEN {}
    ELSE { IF o = "throw"
           THEN IF r.blogUrl
                THEN Step(r, "variation_info", Event("scraping_warning"), ScrapeCall(o))
                ELSE Step(r, "outer_catch", NoMsg, ScrapeCall(o))
           ELSE Step(r, "variation_info", Event("scraped_content"), ScrapeCall(o))
           : o \in ScrapeOutcomes(r) }

RelayVariationInfo(r) ==
    IF r.pc # "variation_info" THEN {}
    ELSE { Step(r, "generation_starting", Event("variation_info"), NoCall) }

\* generation_starting, new ContentGenerator, generateLineContentStream(...)
RelayGenerationStarting(r) ==
    IF r.pc # "generation_starting" THEN {}
    ELSE { Step(r, IF r.useWeb THEN "gen_web_search" ELSE "gen_variation_info",
                Event("generation_starting"), Call("generate")) }

\* generator: enhanceContentWithWebSearch.  searchRelatedInfo catches the
\* failure of its backend call and returns an object, so the await never
\* rejects and the generator yields web_search_complete in both cases.
GenWebSearch(r) ==
    IF r.pc # "gen_web_search" THEN {}
    ELSE { Step(r, "gen_variation_info", Event("web_search_complete"), NoCall) }

\* generator: yield variation_info
GenVariationInfo(r) ==
    IF r.pc # "gen_variation_info" THEN {}
    ELSE { Step(r, "gen_open", Event("variation_info"), NoCall) }

\* generator: await openai.responses.create({... stream: true}); a rejection
\* is rethrown by the generator's catch and reaches the relay's inner catch
GenOpen(r) ==
    IF r.pc # "gen_open" THEN {}
    ELSE { Step(r, "gen_events", NoMsg, NoCall),
           Step(r, "relay_catch", NoMsg, Call("throw")) }

\* generator: for await (const event of response) yield event
GenEvent(r) ==
    IF r.pc # "gen_events" \/ r.nEv >= MaxBackendEvents THEN {}
    ELSE { [next |-> [r EXCEPT !.nEv = r.nEv + 1], write |-> e, call |-> NoCall]
           : e \in BackendEvents }

\* generator: the backend stream ends (yield variation_complete) or its
\* iteration throws (rethrown to the relay's inner catch)
GenFinish(r) ==
    IF r.pc # "gen_events" THEN {}
    ELSE { Step(r, "done", Event("variation_complete"), NoCall),
           Step(r, "relay_catch", NoMsg, Call("throw")) }

\* variant of RelayCatch: the exception is passed on instead of reported
RelayCatch_Rethrow(r) ==
    IF r.pc # "relay_catch" THEN {}
    ELSE { Step(r, "outer_catch", NoMsg, NoCall) }

\* inner catch around the generator loop
RelayCatch(r) ==
    IF r.pc # "relay_catch" THEN {}
    ELSE { Step(r, "done", ErrorEvent("generation"), NoCall) }

\* res.write('data: [DONE]\n\n')
RelayDone(r) ==
    IF r.pc # "done" THEN {}
    ELSE { Step(r, "end", Sentinel, NoCall) }

\* outer catch of the handler
RelayOuterCatch(r) ==
    IF r.pc # "outer_catch" THEN {}
    ELSE { Step(r, "end", ErrorEvent("streaming"), NoCall) }

\* res.end() and return
RelayEnd(r) ==
    IF r.pc # "end" THEN {}
    ELSE { [next |-> IdleRelay, write |-> NoMsg, call |-> Call("end")] }

\* every step the invocation can take from r
RelaySteps(r) ==
    RelayStart(r) \cup RelayScrape(r) \cup RelayVariationInfo(r)
    \cup RelayGenerationStarting(r) \cup GenWebSearch(r)
    \cup GenVariationInfo(r) \cup GenOpen(r) \cup GenEvent(r)
    \cup GenFinish(r) \cup RelayCatch(r) \cup RelayDone(r)
    \cup RelayOuterCatch(r) \cup RelayEnd(r)


\* --- the relay invocation observed on its own: apply one step, log its effects
RelayApply(S) ==
    \E s \in S :
        /\ relay' = s.next
        /\ out' = IF s.write = NoMsg THEN out ELSE Append(out, s.write)
        /\ calls' = IF s.call.fn \in {"none", "end"} THEN calls ELSE Append(calls, s.call)
        /\ ended' = IF s.call.fn = "end" THEN ended + 1 ELSE ended
        /\ UNCHANGED envVars
        /\ UNCHANGED clientVars
        /\ UNCHANGED callVars

Relay_Start == RelayApply(RelayStart(relay))
Relay_Scrape == RelayApply(RelayScrape(relay))
Relay_VariationInfo == RelayApply(RelayVariationInfo(relay))
Relay_GenerationStarting == RelayApply(RelayGenerationStarting(relay))
Gen_WebSearch == RelayApply(GenWebSearch(relay))
Gen_VariationInfo == RelayApply(GenVariationInfo(relay))
Gen_Open == RelayApply(GenOpen(relay))
Gen_Event == RelayApply(GenEvent(relay))
Gen_Finish == RelayApply(GenFinish(relay))
Relay_Catch == RelayApply(RelayCatch(relay))
Relay_Done == RelayApply(RelayDone(relay))
Relay_OuterCatch == RelayApply(RelayOuterCatch(relay))
Relay_End == RelayApply(RelayEnd(relay))

(***************************************************************************)
(* Client Orchestrator                                                     *)
(***************************************************************************)

\* JS arrays are sequences; At reads arr[i] for a 0-based index
At(arr, i) == arr[i + 1]

\* `バリエーション ${index + 1} の生成に失敗しました。\n\n${title || 'この記事'}
\*  についての情報は元の記事をご覧ください。`
FallbackContent(index, title) ==
    << "variation ", ToString(index + 1), " generation failed\n\n",
       IF title # "" THEN title ELSE "this article",
       " see the original article" >>

RECURSIVE ImageRefs(_, _)
\* the image references for images[i..], 1-based i
ImageRefs(images, i) ==
    IF i > Len(images) THEN <<>>
    ELSE << "\n\n![image ", ToString(i), "](", images[i], ")" >> \o ImageRefs(images, i + 1)

\* variant of formatAsMarkdown: the link is appended before the images
formatAsMarkdown_LinkFirst(content, images, blogUrl) ==
    content \o (IF blogUrl # "" THEN << "\n\n[more](", blogUrl, ")" >> ELSE <<>>)
            \o ImageRefs(images, 1)

formatAsMarkdown(content, images, blogUrl) ==
    content \o ImageRefs(images, 1)
            \o (IF blogUrl # "" THEN << "\n\n[more](", blogUrl, ")" >> ELSE <<>>)

\* ContentGenerator._formatAsMarkdown, the server-side copy
ContentGenerator_formatAsMarkdown(content, selected_images, blog_url) ==
    content \o ImageRefs(selected_images, 1)
            \o (IF blog_url # "" THEN << "\n\n[more](", blog_url, ")" >> ELSE <<>>)

\* the props of one request (blog_url "" stands for an absent blog_url;
\* scraped_content: apiRequest carries the already scraped article)
PropsSet ==
    { [title |-> "Example Post", selectedImages |-> <<"img1", "img2">>,
       blog_url |-> "https://blog.example/post", use_web_search |-> TRUE,
       scraped_content |-> TRUE],
      [title |-> "", selectedImages |-> <<>>,
       blog_url |-> "", use_web_search |-> FALSE, scraped_content |-> FALSE] }

InitialStates == [k \in 1 .. NumVariations |-> [status |-> "pending", progress |-> 0]]
InitialContents == [k \in 1 .. NumVariations |-> <<>>]
InitialCompleted == [k \in 1 .. NumVariations |-> FALSE]

\* the component's state as one record, so that handlers compose
Client ==
    [started |-> started, props |-> props, variationStates |-> variationStates,
     streamedContents |-> streamedContents,
     completedVariations |-> completedVariations,
     capContents |-> capContents, capCompleted |-> capCompleted,
     sources |-> sources, eventSourceRefs |-> eventSourceRefs,
     timers |-> timers, isLoading |-> isLoading, cancelled |-> cancelled,
     completeCalls |-> completeCalls, errorCalls |-> errorCalls]

\* the component's state after a handler has run
Apply(c) ==
    /\ started' = c.started
    /\ props' = c.props
    /\ variationStates' = c.variationStates
    /\ streamedContents' = c.streamedContents
    /\ completedVariations' = c.completedVariations
    /\ capContents' = c.capContents
    /\ capCompleted' = c.capCompleted
    /\ sources' = c.sources
    /\ eventSourceRefs' = c.eventSourceRefs
    /\ timers' = c.timers
    /\ isLoading' = c.isLoading
    /\ cancelled' = c.cancelled
    /\ completeCalls' = c.completeCalls
    /\ errorCalls' = c.errorCalls

Commit(c) ==
    /\ Apply(c)
    /\ UNCHANGED relayVars
    /\ UNCHANGED envVars
    /\ UNCHANGED callVars

\* EventSource.close(): no event is dispatched to its handlers afterwards, and
\* the relay invocation behind it is no longer observed
CloseSource(src) == [src EXCEPT !.readyState = "closed", !.relay = IdleRelay]

\* setTimeout(() => generateVariation(k), 500)
SetTimer(c, k) == [c EXCEPT !.timers[k] = @ + 1]

updateVariationProgress(c, index, progress) ==
    [c EXCEPT !.variationStates[index + 1].progress = progress]

\* variant of finishAllVariations: variations without text are left out
finishAllVariations_SkipEmpty(c) ==
    [c EXCEPT
       !.isLoading = FALSE,
       !.completeCalls = Append(@,
           [k \in 1 .. Len(SelectSeq(c.capContents, LAMBDA t : t # <<>>)) |->
              [content |-> SelectSeq(c.capContents, LAMBDA t : t # <<>>)[k],
               markdown |-> SelectSeq(c.capContents, LAMBDA t : t # <<>>)[k]]])]

\* streamedContents read here is the value captured by the closure
finishAllVariations(c) ==
    [c EXCEPT
       !.isLoading = FALSE,
       !.completeCalls = Append(@,
           [k \in 1 .. Len(c.capContents) |->
              [content |-> c.capContents[k],
               markdown |-> formatAsMarkdown(c.capContents[k],
                               c.props.selectedImages, c.props.blog_url)]])]

\* variant of generateVariation: off-by-one in the end test
generateVariation_EarlyFinish(c, index) ==
    IF index >= 2 THEN finishAllVariations(c)
    ELSE [c EXCEPT
            !.variationStates[index + 1] = [status |-> "loading", progress |-> 5 * Scale],
            !.sources = Append(@,
                [index |-> index, readyState |-> "open", accumulatedText |-> <<>>,
                 relay |-> NewRelay("json", c.props.blog_url # "",
                                    c.props.use_web_search,
                                    c.props.scraped_content)]),
            !.eventSourceRefs[index + 1] = Len(c.sources) + 1]

generateVariation(c, index) ==
    IF index >= 3 THEN finishAllVariations(c)
    ELSE [c EXCEPT
            !.variationStates[index + 1] = [status |-> "loading", progress |-> 5 * Scale],
            !.sources = Append(@,
                [index |-> index, readyState |-> "open", accumulatedText |-> <<>>,
                 relay |-> NewRelay("json", c.props.blog_url # "",
                                    c.props.use_web_search,
                                    c.props.scraped_content)]),
            !.eventSourceRefs[index + 1] = Len(c.sources) + 1]

\* variant of handleVariationError: the EventSource is left open
handleVariationError_NoClose(c, index) ==
    SetTimer(
      [c EXCEPT
         !.variationStates[index + 1] = [status |-> "error", progress |-> 0],
         !.streamedContents =
             [c.capContents EXCEPT ![index + 1] = FallbackContent(index, c.props.title)],
         !.completedVariations = [c.capCompleted EXCEPT ![index + 1] = TRUE]],
      index + 1)

handleVariationError(c, index) ==
    LET ref == c.eventSourceRefs[index + 1] IN
    SetTimer(
      [c EXCEPT
         !.variationStates[index + 1] = [status |-> "error", progress |-> 0],
         !.sources = IF ref # 0 THEN [@ EXCEPT ![ref] = CloseSource(@)] ELSE @,
         !.streamedContents =
             [c.capContents EXCEPT ![index + 1] = FallbackContent(index, c.props.title)],
         !.completedVariations = [c.capCompleted EXCEPT ![index + 1] = TRUE]],
      index + 1)

\* variant of onSentinel: the source is not closed
onSentinel_NoClose(c, s) ==
    LET index == c.sources[s].index IN
    SetTimer(
      [c EXCEPT
         !.completedVariations = [c.capCompleted EXCEPT ![index + 1] = TRUE],
         !.variationStates[index + 1] = [status |-> "complete", progress |-> 100 * Scale]],
      index + 1)

\* variant of onSentinel: the next variation is started without the delay
onSentinel_NoDelay(c, s) ==
    LET index == c.sources[s].index IN
    generateVariation(
      [c EXCEPT
         !.sources[s] = CloseSource(@),
         !.completedVariations = [c.capCompleted EXCEPT ![index + 1] = TRUE],
         !.variationStates[index + 1] = [status |-> "complete", progress |-> 100 * Scale]],
      index + 1)

\* variant of onSentinel: the status is left as it is
onSentinel_NoStatus(c, s) ==
    LET index == c.sources[s].index IN
    SetTimer(
      [c EXCEPT
         !.sources[s] = CloseSource(@),
         !.completedVariations = [c.capCompleted EXCEPT ![index + 1] = TRUE]],
      index + 1)

\* the '[DONE]' branch of eventSource.onmessage of source s
onSentinel(c, s) ==
    LET index == c.sources[s].index IN
    SetTimer(
      [c EXCEPT
         !.sources[s] = CloseSource(@),
         !.completedVariations = [c.capCompleted EXCEPT ![index + 1] = TRUE],
         !.variationStates[index + 1] = [status |-> "complete", progress |-> 100 * Scale]],
      index + 1)

\* variant of onDelta: the delta is put in front of the accumulated text
onDelta_Prepend(c, s, delta) ==
    LET index == c.sources[s].index
        text == delta \o c.sources[s].accumulatedText
    IN  updateVariationProgress(
          [c EXCEPT
             !.sources[s].accumulatedText = text,
             !.streamedContents = [c.capContents EXCEPT ![index + 1] = text]],
          index, Min(60 * Scale + Len(text), 95 * Scale))

\* the response.output_text.delta branch of eventSource.onmessage of source s
onDelta(c, s, delta) ==
    LET index == c.sources[s].index
        text == c.sources[s].accumulatedText \o delta
    IN  updateVariationProgress(
          [c EXCEPT
             !.sources[s].accumulatedText = text,
             !.streamedContents = [c.capContents EXCEPT ![index + 1] = text]],
          index, Min(60 * Scale + Len(text), 95 * Scale))

\* variant of onmessage: a message that is not JSON fails the session
onmessage_ParseFails(c, s, msg) ==
    LET index == c.sources[s].index IN
    IF msg.data = "[DONE]" THEN onSentinel(c, s)
    ELSE IF msg.data # "json" THEN handleVariationError(c, index)
    ELSE CASE msg.type = "process_start" -> updateVariationProgress(c, index, 10 * Scale)
           [] msg.type = "scraped_content" -> updateVariationProgress(c, index, 20 * Scale)
           [] msg.type = "scraping_warning" -> updateVariationProgress(c, index, 25 * Scale)
           [] msg.type = "variation_info" -> updateVariationProgress(c, index, 30 * Scale)
           [] msg.type = "generation_starting" -> updateVariationProgress(c, index, 35 * Scale)
           [] msg.type = "response.created" -> updateVariationProgress(c, index, 40 * Scale)
           [] msg.type = "response.in_progress" -> updateVariationProgress(c, index, 50 * Scale)
           [] msg.type = "web_search_call" -> updateVariationProgress(c, index, 60 * Scale)
           [] msg.type = "response.output_text.delta" -> onDelta(c, s, msg.delta)
           [] msg.type = "response.output_text.done" -> updateVariationProgress(c, index, 98 * Scale)
           [] msg.type = "variation_complete" -> updateVariationProgress(c, index, 100 * Scale)
           [] msg.type = "error" -> handleVariationError(c, index)
           [] OTHER -> c

\* eventSource.onmessage of source s (closure over index and accumulatedText)
onmessage(c, s, msg) ==
    LET index == c.sources[s].index IN
    IF msg.data = "[DONE]" THEN onSentinel(c, s)
    ELSE IF msg.data # "json" THEN c  \* JSON.parse throws, caught and logged
    ELSE CASE msg.type = "process_start" -> updateVariationProgress(c, index, 10 * Scale)
           [] msg.type = "scraped_content" -> updateVariationProgress(c, index, 20 * Scale)
           [] msg.type = "scraping_warning" -> updateVariationProgress(c, index, 25 * Scale)
           [] msg.type = "variation_info" -> updateVariationProgress(c, index, 30 * Scale)
           [] msg.type = "generation_starting" -> updateVariationProgress(c, index, 35 * Scale)
           [] msg.type = "response.created" -> updateVariationProgress(c, index, 40 * Scale)
           [] msg.type = "response.in_progress" -> updateVariationProgress(c, index, 50 * Scale)
           [] msg.type = "web_search_call" -> updateVariationProgress(c, index, 60 * Scale)
           [] msg.type = "response.output_text.delta" -> onDelta(c, s, msg.delta)
           [] msg.type = "response.output_text.done" -> updateVariationProgress(c, index, 98 * Scale)
           [] msg.type = "variation_complete" -> updateVariationProgress(c, index, 100 * Scale)
           [] msg.type = "error" -> handleVariationError(c, index)
           [] OTHER -> c

\* eventSourceRefs.current.forEach(es => es && es.close())
closeAll(c) ==
    [c EXCEPT !.sources =
        [s \in 1 .. Len(c.sources) |->
            IF \E k \in 1 .. NumVariations : c.eventSourceRefs[k] = s
            THEN CloseSource(c.sources[s]) ELSE c.sources[s]]]

handleCancelStream(c) ==
    [closeAll(c) EXCEPT !.isLoading = FALSE, !.errorCalls = @ + 1, !.cancelled = TRUE]

\* --- actions of the client

\* the effect on [isStreaming, apiRequest, scrapedContent]: reset the state
\* and call generateVariation(0); the closures created by this render see the
\* streamedContents and completedVariations of this render
StartStreaming ==
    /\ ~started
    /\ Commit(generateVariation(
          [Client EXCEPT
             !.started = TRUE, !.isLoading = TRUE,
             !.capContents = streamedContents,
             !.capCompleted = completedVariations,
             !.streamedContents = InitialContents,
             !.completedVariations = InitialCompleted,
             !.variationStates = InitialStates], 0))

\* the relay behind the open source s takes a step; a message it writes is
\* dispatched to eventSource.onmessage
ChannelDeliver(s) ==
    /\ sources[s].readyState = "open"
    /\ \E st \in RelaySteps(sources[s].relay) :
         LET c == [Client EXCEPT !.sources[s].relay = st.next] IN
         Commit(IF st.write = NoMsg THEN c ELSE onmessage(c, s, st.write))

\* the connection of the open source s fails: eventSource.onerror
ChannelError(s) ==
    /\ sources[s].readyState = "open"
    /\ Commit(handleVariationError(Client, sources[s].index))

\* a settle delay elapses: the callback of setTimeout runs
TimerFire(k) ==
    /\ timers[k] > 0
    /\ Commit(generateVariation([Client EXCEPT !.timers[k] = @ - 1], k))

\* the cancel button, rendered while isLoading
CancelStream ==
    /\ started
    /\ isLoading
    /\ Commit(handleCancelStream(Client))

(***************************************************************************)
(* Specifications                                                          *)
(***************************************************************************)

InitClient ==
    /\ started = FALSE
    /\ props \in PropsSet
    /\ variationStates = InitialStates
    /\ streamedContents = InitialContents
    /\ completedVariations = InitialCompleted
    /\ capContents = InitialContents
    /\ capCompleted = InitialCompleted
    /\ sources = <<>>
    /\ eventSourceRefs = [k \in 1 .. NumVariations |-> 0]
    /\ timers = [k \in 1 .. NumVariations |-> 0]
    /\ isLoading = FALSE
    /\ cancelled = FALSE
    /\ completeCalls = <<>>
    /\ errorCalls = 0

\* no call is observed on its own
NoArgs == [fn |-> "none"]
NoResult == [pc |-> "none"]
InitCall == args = NoArgs /\ result = NoResult

\* one relay invocation on its own, for every request and environment
InitRelay ==
    /\ \E d \in RequestData, b \in BOOLEAN, w \in BOOLEAN, p \in BOOLEAN :
          relay = NewRelay(d, b, w, p)
    /\ out = <<>>
    /\ calls = <<>>
    /\ ended = 0
    /\ openaiApiKey \in BOOLEAN
    /\ InitClient
    /\ props = CHOOSE p \in PropsSet : TRUE
    /\ InitCall

NextRelay ==
    \/ Relay_Start
    \/ Relay_Scrape
    \/ Relay_VariationInfo
    \/ Relay_GenerationStarting
    \/ Gen_WebSearch
    \/ Gen_VariationInfo
    \/ Gen_Open
    \/ Gen_Event
    \/ Gen_Finish
    \/ Relay_Catch
    \/ Relay_Done
    \/ Relay_OuterCatch
    \/ Relay_End

SpecRelay == InitRelay /\ [][NextRelay]_vars

\* the handler is one async function: while it has a next statement it runs
\* it (the scrape call and the backend stream are taken to terminate)
SpecRelayFair == SpecRelay /\ WF_vars(NextRelay)

\* one request of the client, every channel served by its own relay invocation
Init ==
    /\ relay = IdleRelay
    /\ out = <<>>
    /\ calls = <<>>
    /\ ended = 0
    /\ openaiApiKey \in BOOLEAN
    /\ InitClient
    /\ InitCall

Next ==
    \/ StartStreaming
    \/ \E s \in 1 .. Len(sources) : ChannelDeliver(s)
    \/ \E s \in 1 .. Len(sources) : ChannelError(s)
    \/ \E k \in 1 .. NumVariations : TimerFire(k)
    \/ CancelStream

Spec == Init /\ [][Next]_vars

(***************************************************************************)
(* The Client Orchestrator with any server at the far end of its channels: *)
(* a channel delivers any message of the event-stream protocol, in any     *)
(* order, and messages that are not JSON.  result holds the messages       *)
(* delivered so far on the channel that delivered last.                    *)
(***************************************************************************)

\* event.data that JSON.parse rejects
Malformed == [data |-> "malformed"]

LongDelta == [k \in 1 .. LongDeltaLen |-> "x"]

\* token deltas on the wire: a short one and the long one
WireDeltas == { <<"a">>, LongDelta }

WireMessages ==
    { Sentinel, Malformed, ErrorEvent("server"), Event("variation_complete") }
    \cup { DeltaEvent(d) : d \in WireDeltas }

NoLog == [source |-> 0, log |-> <<>>]
\* the messages delivered so far to source s
LogOf(s) == IF result.source = s THEN result.log ELSE <<>>

InitChannel ==
    /\ relay = IdleRelay
    /\ out = <<>>
    /\ calls = <<>>
    /\ ended = 0
    /\ openaiApiKey = TRUE
    /\ InitClient
    /\ props = CHOOSE p \in PropsSet : TRUE
    /\ args = NoArgs
    /\ result = NoLog

\* a message arrives on the open source s: eventSource.onmessage
WireDeliver(s) ==
    /\ sources[s].readyState = "open"
    /\ Len(LogOf(s)) < MaxWireEvents
    /\ \E m \in WireMessages :
         /\ Apply(onmessage(Client, s, m))
         /\ result' = [source |-> s, log |-> Append(LogOf(s), m)]
    /\ UNCHANGED <<args, relayVars, envVars>>

NextChannel ==
    \/ StartStreaming
    \/ \E s \in 1 .. Len(sources) : WireDeliver(s)
    \/ \E s \in 1 .. Len(sources) : ChannelError(s)
    \/ \E k \in 1 .. NumVariations : TimerFire(k)
    \/ CancelStream

SpecChannel == InitChannel /\ [][NextChannel]_vars

(***************************************************************************)
(* The life cycle of the component: the cleanup of the streaming effect    *)
(* runs when the component unmounts and before the effect runs again.      *)
(* result holds the life cycle: mounted or not, and the effect runs.       *)
(***************************************************************************)

NewLifecycle == [pc |-> "mounted", runs |-> 0]

InitLifecycle ==
    /\ relay = IdleRelay
    /\ out = <<>>
    /\ calls = <<>>
    /\ ended = 0
    /\ openaiApiKey = TRUE
    /\ InitClient
    /\ args = NoArgs
    /\ result = NewLifecycle

\* the effect's cleanup: eventSourceRefs.current.forEach(es => es && es.close())
cleanup(c) == closeAll(c)

\* the effect's body: reset the state and call generateVariation(0)
startEffect(c, contents, completed) ==
    generateVariation(
      [c EXCEPT
         !.started = TRUE, !.isLoading = TRUE,
         !.capContents = contents,
         !.capCompleted = completed,
         !.streamedContents = InitialContents,
         !.completedVariations = InitialCompleted,
         !.variationStates = InitialStates], 0)

\* first run of the effect (isStreaming becomes true)
Lifecycle_Start ==
    /\ result.pc = "mounted"
    /\ ~started
    /\ Apply(startEffect(Client, streamedContents, completedVariations))
    /\ result' = [result EXCEPT !.runs = @ + 1]
    /\ UNCHANGED <<args, relayVars, envVars>>

\* apiRequest or scrapedContent changes while streaming: cleanup, then the
\* effect's body again, in the closures of the new render
Lifecycle_Restart ==
    /\ result.pc = "mounted"
    /\ started
    /\ result.runs <= MaxRestarts
    /\ \E p \in PropsSet :
         Apply(startEffect([cleanup(Client) EXCEPT !.props = p],
                           streamedContents, completedVariations))
    /\ result' = [result EXCEPT !.runs = @ + 1]
    /\ UNCHANGED <<args, relayVars, envVars>>

\* the component unmounts: cleanup only
Lifecycle_Unmount ==
    /\ result.pc = "mounted"
    /\ started
    /\ Apply(cleanup(Client))
    /\ result' = [result EXCEPT !.pc = "unmounted"]
    /\ UNCHANGED <<args, relayVars, envVars>>

\* the step a relay invocation takes when nothing fails that can succeed:
\* the scrape returns long content, the backend stream opens, delivers no
\* event and ends
QuietStep(r) ==
    LET quiet == { st \in RelaySteps(r) :
                     /\ st.write \notin BackendEvents
                     /\ st.next.pc \notin {"relay_catch", "outer_catch"}
                     /\ st.call.fn = "scrape" => st.call.outcome = "long" }
    IN  IF quiet # {} THEN CHOOSE st \in quiet : TRUE
        ELSE CHOOSE st \in RelaySteps(r) : TRUE

RECURSIVE DeliverAll(_, _)
\* the relay behind the source s runs to its end, and every message it
\* writes is dispatched while the source is open
DeliverAll(c, s) ==
    IF c.sources[s].readyState # "open" \/ RelaySteps(c.sources[s].relay) = {}
    THEN c
    ELSE LET st == QuietStep(c.sources[s].relay)
             c1 == [c EXCEPT !.sources[s].relay = st.next]
         IN  DeliverAll(IF st.write = NoMsg THEN c1 ELSE onmessage(c1, s, st.write), s)

\* the whole event stream of the open source s arrives, with no other
\* event of the component in between
StreamDeliver(s) ==
    /\ sources[s].readyState = "open"
    /\ Commit(DeliverAll(Client, s))

\* there is room for one more EventSource or settle timer
Room == Len(sources) + timers[1] + timers[2] + timers[3] < MaxSources

NextLifecycle ==
    \/ Lifecycle_Start
    \/ Room /\ Lifecycle_Restart
    \/ Lifecycle_Unmount
    \/ \E s \in 1 .. Len(sources) : Room /\ StreamDeliver(s)
    \/ \E s \in 1 .. Len(sources) : Room /\ ChannelError(s)
    \/ \E k \in 1 .. NumVariations : TimerFire(k)
    \/ result.pc = "mounted" /\ CancelStream

SpecLifecycle == InitLifecycle /\ [][NextLifecycle]_vars

(***************************************************************************)
(* formatAsMarkdown on its own                                             *)
(***************************************************************************)

\* the relay and the client at rest, for the specifications of single calls
InitRest ==
    /\ relay = IdleRelay
    /\ out = <<>>
    /\ calls = <<>>
    /\ ended = 0
    /\ openaiApiKey = TRUE
    /\ InitClient
    /\ props = CHOOSE p \in PropsSet : TRUE

ImageUrls == { "img1", "img2" }
RECURSIVE SeqsUpTo(_, _)
\* the sequences over S of length at most n
SeqsUpTo(S, n) ==
    IF n = 0 THEN { <<>> }
    ELSE SeqsUpTo(S, n - 1)
         \cup { Append(q, x) : q \in { t \in SeqsUpTo(S, n - 1) : Len(t) = n - 1 }, x \in S }

MarkdownContents == { <<>>, <<"a">>, <<"b", "c">> }
MarkdownArgs ==
    { [fn |-> "formatAsMarkdown", content |-> c, images |-> i, blogUrl |-> u] :
        c \in MarkdownContents, i \in SeqsUpTo(ImageUrls, MaxImages),
        u \in { "", "https://blog.example/post" } }

InitMarkdown ==
    /\ InitRest
    /\ args \in MarkdownArgs
    /\ result = NoResult

\* the client's formatAsMarkdown(content, selectedImages, apiRequest.blog_url)
Markdown_Client ==
    /\ result = NoResult
    /\ result' = [pc |-> "client",
                  markdown |-> formatAsMarkdown(args.content, args.images, args.blogUrl)]
    /\ UNCHANGED <<args, relayVars, envVars, clientVars>>

\* the generator's _formatAsMarkdown(content, selected_images, request.blog_url)
Markdown_Server ==
    /\ result = NoResult
    /\ result' = [pc |-> "server",
                  markdown |-> ContentGenerator_formatAsMarkdown(
                                  args.content, args.images, args.blogUrl)]
    /\ UNCHANGED <<args, relayVars, envVars, clientVars>>

NextMarkdown ==
    \/ Markdown_Client
    \/ Markdown_Server

SpecMarkdown == InitMarkdown /\ [][NextMarkdown]_vars

(***************************************************************************)
(* ContentGenerator.generateLineContent (non-streaming) on its own         *)
(***************************************************************************)

\* variant of Temperature: every index uses the same value
Temperature_Flat(i) == TemperatureBase

\* temperature: 0.7 + (variationIndex * 0.1), in tenths
Temperature(i) == TemperatureBase + (i * TemperatureStep)

GenerateArgs ==
    { [fn |-> "generateLineContent", use_web_search |-> w,
       selected_images |-> i, blog_url |-> u] :
        w \in BOOLEAN, i \in { <<>>, <<"img1">> },
        u \in { "", "https://blog.example/post" } }

\* texts a backend response can carry
GeneratedTexts == { <<"a">>, <<"b", "c">> }

InitGenerate ==
    /\ InitRest
    /\ args \in GenerateArgs
    /\ result = [pc |-> "start", i |-> 0, variations |-> <<>>, apiCalls |-> 0,
                 requests |-> <<>>]

\* the web search before the loop: enhanceContentWithWebSearch does not
\* reject, and a rejection would be caught; then _buildPrompt
Generate_WebSearch ==
    /\ result.pc = "start"
    /\ result' = [result EXCEPT !.pc = "loop"]
    /\ UNCHANGED <<args, relayVars, envVars, clientVars>>

\* one iteration of for (let i = 0; i < 3; i++): a backend call that
\* returns text (push the variation), returns blank content (i--; continue,
\* so the same i is tried again) or rejects (rethrown by the catch)
Generate_Iteration ==
    /\ result.pc = "loop"
    /\ result.i < 3
    /\ result.apiCalls < MaxBackendCalls
    /\ LET request == [i |-> result.i, temperature |-> Temperature(result.i)]
           called == [result EXCEPT !.apiCalls = @ + 1,
                                    !.requests = Append(@, request)]
       IN  \/ \E t \in GeneratedTexts :
                result' = [called EXCEPT
                             !.variations = Append(@,
                                 [content |-> t,
                                  markdown |-> ContentGenerator_formatAsMarkdown(
                                      t, args.selected_images, args.blog_url)]),
                             !.i = @ + 1]
           \/ result' = called
           \/ result' = [called EXCEPT !.pc = "thrown"]
    /\ UNCHANGED <<args, relayVars, envVars, clientVars>>

\* the loop test fails: return variations
Generate_Return ==
    /\ result.pc = "loop"
    /\ result.i >= 3
    /\ result' = [result EXCEPT !.pc = "returned"]
    /\ UNCHANGED <<args, relayVars, envVars, clientVars>>

NextGenerate ==
    \/ Generate_WebSearch
    \/ Generate_Iteration
    \/ Generate_Return

SpecGenerate == InitGenerate /\ [][NextGenerate]_vars

(***************************************************************************)
(* ContentGenerator.generateLineContentStream (one Generation Session)     *)
(* on its own.  A JS object is a record; a property that an object does    *)
(* not have is tested with Has.  The outcome of an awaited call is a       *)
(* record [threw, value].                                                  *)
(***************************************************************************)

Has(obj, f) == f \in DOMAIN obj

\* {}
EmptyObject == [f \in {} |-> f]

\* what this.openai.chat.completions.create does inside searchRelatedInfo:
\* resolves with content, resolves with null or empty content, or rejects
LookupOutcomes == { "summary", "blank", "reject" }

WebSummary == "web summary"

\* WebSearchClient.searchRelatedInfo: the try returns { search_results:
\* { summary, citations } }, the catch returns { error, summary: "",
\* citations }; it never rejects
searchRelatedInfo(o) ==
    IF o = "reject"
    THEN [threw |-> FALSE,
          value |-> [error |-> "message", summary |-> "", citations |-> <<>>]]
    ELSE [threw |-> FALSE,
          value |-> [search_results |->
                       [summary |-> IF o = "summary" THEN WebSummary ELSE "",
                        citations |-> <<>>]]]

\* WebSearchClient.enhanceContentWithWebSearch: { topic, search_results:
\* searchResults }, where searchResults is the whole object returned above
enhanceContentWithWebSearch(o) ==
    LET searchResults == searchRelatedInfo(o) IN
    IF searchResults.threw THEN [threw |-> TRUE]
    ELSE [threw |-> FALSE,
          value |-> [topic |-> "title", search_results |-> searchResults.value]]

\* ContentGenerator._buildPrompt, as far as the web-search section goes:
\* if (web_search_info && web_search_info.search_results &&
\*     web_search_info.search_results.summary) the section holds the summary
ContentGenerator_buildPrompt(web_search_info) ==
    LET web_search_section ==
          IF /\ Has(web_search_info, "search_results")
             /\ Has(web_search_info.search_results, "summary")
             /\ web_search_info.search_results.summary # ""
          THEN << "# web search", web_search_info.search_results.summary >>
          ELSE <<>>
    IN  << "# company", "# article" >> \o web_search_section
        \o << "# requirements", "# instructions" >>

SessionArgs ==
    { [fn |-> "generateLineContentStream", use_web_search |-> w, variationIndex |-> i] :
        w \in BOOLEAN, i \in Indexes }

\* the generator before its first statement.  lookup: what the lookup's
\* backend call did ("none": not made); arrived: the events the backend
\* stream has delivered; yields: the events the generator has yielded
\* requests: the calls of openai.responses.create made, with the index they
\* are for and their temperature
NewSession(variationIndex) ==
    [pc |-> "start", variationIndex |-> variationIndex, lookup |-> "none",
     web_search_info |-> EmptyObject, prompt |-> <<>>, requests |-> <<>>,
     opened |-> FALSE, arrived |-> <<>>, yields |-> <<>>]

\* if (use_web_search) try { web_search_info = await enhance...; yield
\* web_search_complete } catch { yield web_search_error }
SessionWebSearch(r, o) ==
    LET e == enhanceContentWithWebSearch(o) IN
    IF e.threw
    THEN [r EXCEPT !.pc = "variation_info", !.lookup = o,
                   !.yields = Append(@, Event("web_search_error"))]
    ELSE [r EXCEPT !.pc = "variation_info", !.lookup = o,
                   !.web_search_info = e.value,
                   !.yields = Append(@, Event("web_search_complete"))]

\* _buildPrompt, tools, yield variation_info
SessionVariationInfo(r) ==
    [r EXCEPT !.pc = "open",
              !.prompt = ContentGenerator_buildPrompt(r.web_search_info),
              !.yields = Append(@, Event("variation_info"))]

\* await this.openai.responses.create({ instructions: prompt, stream: true })
SessionOpen(r, ok) ==
    LET request == [i |-> r.variationIndex, temperature |-> Temperature(r.variationIndex)]
    IN  IF ok THEN [r EXCEPT !.pc = "events", !.opened = TRUE,
                             !.requests = Append(@, request)]
        ELSE [r EXCEPT !.pc = "thrown", !.requests = Append(@, request)]

\* one round of for await (const event of response) yield event
SessionEvent(r, e) ==
    [r EXCEPT !.arrived = Append(@, e), !.yields = Append(@, e)]

\* variant of SessionFinish: the catch yields variation_complete as well
SessionFinish_CompleteOnThrow(r, ok) ==
    IF ok THEN [r EXCEPT !.pc = "returned",
                         !.yields = Append(@, Event("variation_complete"))]
    ELSE [r EXCEPT !.pc = "thrown",
                   !.yields = Append(@, Event("variation_complete"))]

\* the backend stream ends (yield variation_complete, return) or reading it
\* fails (the catch around the loop throws a new Error)
SessionFinish(r, ok) ==
    IF ok THEN [r EXCEPT !.pc = "returned",
                         !.yields = Append(@, Event("variation_complete"))]
    ELSE [r EXCEPT !.pc = "thrown"]

InitSession ==
    /\ InitRest
    /\ args \in SessionArgs
    /\ result = NewSession(args.variationIndex)

Session_WebSearch ==
    /\ result.pc = "start"
    /\ args.use_web_search
    /\ \E o \in LookupOutcomes : result' = SessionWebSearch(result, o)
    /\ UNCHANGED <<args, relayVars, envVars, clientVars>>

Session_NoWebSearch ==
    /\ result.pc = "start"
    /\ ~args.use_web_search
    /\ result' = [result EXCEPT !.pc = "variation_info"]
    /\ UNCHANGED <<args, relayVars, envVars, clientVars>>

Session_VariationInfo ==
    /\ result.pc = "variation_info"
    /\ result' = SessionVariationInfo(result)
    /\ UNCHANGED <<args, relayVars, envVars, clientVars>>

Session_Open ==
    /\ result.pc = "open"
    /\ \E ok \in BOOLEAN : result' = SessionOpen(result, ok)
    /\ UNCHANGED <<args, relayVars, envVars, clientVars>>

Session_Event ==
    /\ result.pc = "events"
    /\ Len(result.arrived) < MaxBackendEvents
    /\ \E e \in BackendEvents : result' = SessionEvent(result, e)
    /\ UNCHANGED <<args, relayVars, envVars, clientVars>>

Session_Finish ==
    /\ result.pc = "events"
    /\ \E ok \in BOOLEAN : result' = SessionFinish(result, ok)
    /\ UNCHANGED <<args, relayVars, envVars, clientVars>>

NextSession ==
    \/ Session_WebSearch
    \/ Session_NoWebSearch
    \/ Session_VariationInfo
    \/ Session_Open
    \/ Session_Event
    \/ Session_Finish

SpecSession == InitSession /\ [][NextSession]_vars

(***************************************************************************)
(* ContentGenerator.generateAllVariationsWithStreaming on its own: it runs *)
(* one Generation Session per index and consumes the events it yields.     *)
(***************************************************************************)

AllArgs ==
    { [fn |-> "generateAllVariationsWithStreaming", title |-> "Example Post",
       selected_images |-> <<"img1">>, blog_url |-> u, use_web_search |-> w] :
        u \in { "", "https://blog.example/post" }, w \in BOOLEAN }

\* the events the backend streams of these sessions deliver; one delta is
\* white space only
AllBackendEvents ==
    { Event("response.created"), DeltaEvent(<<"a">>), DeltaEvent(<<" ">>) }

Whitespace == { " ", "\n", "\t" }
\* text.trim().length === 0
IsBlank(text) == \A k \in 1 .. Len(text) : text[k] \in Whitespace

\* `LINE配信記事 ${i + 1}\n\n${scraped_content.title}に関する情報を
\*  お届けします。\n\n詳しくは元記事をご覧ください！`
DefaultContent(i, title) ==
    << "LINE article ", ToString(i + 1), "\n\n", title,
       " information for you", "\n\n", "see the original article" >>

\* the call before its first statement.  started: sessions created so far;
\* texts: the accumulatedText each finished session ended with
NewAll ==
    [pc |-> "loop", i |-> 0, accumulatedText |-> <<>>, variations |-> <<>>,
     session |-> NewSession(0), started |-> 0,
     texts |-> [k \in 1 .. NumVariations |-> <<>>],
     progressCalls |-> 0, completeCalls |-> <<>>, errorCalls |-> 0]

\* loop head with i < 3: accumulatedText = '', generateLineContentStream(.., i)
AllStartSession(r) ==
    [r EXCEPT !.pc = "session", !.accumulatedText = <<>>,
              !.session = NewSession(r.i), !.started = @ + 1]

\* every step the generator of session r can take next
SessionSteps(r, use_web_search) ==
    CASE r.pc = "start" ->
           IF use_web_search THEN { SessionWebSearch(r, o) : o \in LookupOutcomes }
           ELSE { [r EXCEPT !.pc = "variation_info"] }
      [] r.pc = "variation_info" -> { SessionVariationInfo(r) }
      [] r.pc = "open" -> { SessionOpen(r, ok) : ok \in BOOLEAN }
      [] r.pc = "events" ->
           { SessionFinish(r, ok) : ok \in BOOLEAN }
           \cup (IF Len(r.arrived) < MaxBackendEvents
                 THEN { SessionEvent(r, e) : e \in AllBackendEvents } ELSE {})
      [] OTHER -> {}

\* the body of for await (const event of streamGenerator), for the event
\* the generator has just yielded (if it yielded one)
AllConsume(r, next) ==
    LET yielded == Len(next.yields) > Len(r.session.yields)
        event == next.yields[Len(next.yields)]
    IN  IF yielded /\ event.type = "response.output_text.delta"
        THEN [r EXCEPT !.session = next,
                       !.accumulatedText = @ \o event.delta,
                       !.progressCalls = @ + 1]
        ELSE [r EXCEPT !.session = next]

\* variant of AllPush: a blank session is run again for the same index
AllPush_Retry(r, a) ==
    IF ~IsBlank(r.accumulatedText)
    THEN [r EXCEPT !.pc = "loop", !.i = @ + 1,
                   !.texts[r.i + 1] = r.accumulatedText,
                   !.variations = Append(@,
                       [content |-> r.accumulatedText,
                        markdown |-> ContentGenerator_formatAsMarkdown(
                            r.accumulatedText, a.selected_images, a.blog_url)])]
    ELSE [r EXCEPT !.pc = "loop"]

\* after the generator is exhausted: push the accumulated text, or the
\* default content when it is blank; i++
AllPush(r, a) ==
    LET content == IF ~IsBlank(r.accumulatedText) THEN r.accumulatedText
                   ELSE DefaultContent(r.i, a.title)
    IN  [r EXCEPT !.pc = "loop", !.i = @ + 1,
                  !.texts[r.i + 1] = r.accumulatedText,
                  !.variations = Append(@,
                      [content |-> content,
                       markdown |-> ContentGenerator_formatAsMarkdown(
                           content, a.selected_images, a.blog_url)])]

\* variant of AllCatch: the variations made so far are delivered as well
AllCatch_Partial(r) ==
    [r EXCEPT !.pc = "returned", !.errorCalls = @ + 1,
              !.completeCalls = Append(@, r.variations)]

\* catch (error) { onError(...) }
AllCatch(r) ==
    [r EXCEPT !.pc = "returned", !.errorCalls = @ + 1]

\* after the loop: onComplete(variations)
AllComplete(r) ==
    [r EXCEPT !.pc = "returned", !.completeCalls = Append(@, r.variations)]

InitAll ==
    /\ InitRest
    /\ args \in AllArgs
    /\ result = NewAll

All_StartSession ==
    /\ result.pc = "loop"
    /\ result.i < 3
    /\ result' = AllStartSession(result)
    /\ UNCHANGED <<args, relayVars, envVars, clientVars>>

\* the generator yields an event or goes on without yielding
All_SessionStep ==
    /\ result.pc = "session"
    /\ \E next \in SessionSteps(result.session, args.use_web_search) :
         /\ next.pc \notin {"returned", "thrown"}
         /\ result' = AllConsume(result, next)
    /\ UNCHANGED <<args, relayVars, envVars, clientVars>>

\* the generator yields variation_complete and returns
All_SessionReturns ==
    /\ result.pc = "session"
    /\ \E next \in SessionSteps(result.session, args.use_web_search) :
         /\ next.pc = "returned"
         /\ result' = AllPush(AllConsume(result, next), args)
    /\ UNCHANGED <<args, relayVars, envVars, clientVars>>

\* the generator throws
All_SessionThrows ==
    /\ result.pc = "session"
    /\ \E next \in SessionSteps(result.session, args.use_web_search) :
         /\ next.pc = "thrown"
         /\ result' = AllCatch([result EXCEPT !.session = next])
    /\ UNCHANGED <<args, relayVars, envVars, clientVars>>

All_Complete ==
    /\ result.pc = "loop"
    /\ result.i >= 3
    /\ result' = AllComplete(result)
    /\ UNCHANGED <<args, relayVars, envVars, clientVars>>

NextAll ==
    \/ All_StartSession
    \/ All_SessionStep
    \/ All_SessionReturns
    \/ All_SessionThrows
    \/ All_Complete

SpecAll == InitAll /\ [][NextAll]_vars

(***************************************************************************)
(* ApiClient: one request through the axios instance and its response      *)
(* interceptor                                                             *)
(***************************************************************************)

\* what one attempt can end with: a response with a status, no response
\* (network error, timeout, another error), or an error without config
Statuses == { 200, 400, 404, 499, 500, 503, 599, 600 }
ApiOutcomes ==
    { [kind |-> "response", status |-> st] : st \in Statuses }
    \cup { [kind |-> k, status |-> 0] : k \in { "network", "timeout", "other", "noconfig" } }

\* validateStatus of axios: a 2xx response resolves
IsSuccess(o) == o.kind = "response" /\ o.status >= 200 /\ o.status < 300

\* variant of shouldRetry: every response with an error status is retried
shouldRetry_AnyStatus(o) ==
    \/ o.kind = "network"
    \/ o.kind = "timeout"
    \/ o.kind = "response" /\ o.status >= 400

\* error.message === 'Network Error' || error.code === 'ECONNABORTED' ||
\* (error.response && status >= 500 && status < 600)
shouldRetry(o) ==
    \/ o.kind = "network"
    \/ o.kind = "timeout"
    \/ o.kind = "response" /\ o.status >= 500 /\ o.status < 600

ApiArgs == { [fn |-> "apiClient.get", url |-> u] : u \in { "/api", "/api/scrape" } }

\* config: the request config, which has no _retry until the interceptor
\* sets it; attempts: requests sent; log: how each attempt ended; delays:
\* the setTimeout delays used
NewRequest(url) ==
    [pc |-> "idle", config |-> [url |-> url], attempts |-> 0,
     log |-> <<>>, delays |-> <<>>]

\* the rejected handler of the response interceptor
onRejected(r, o) ==
    LET originalRequest ==
          IF Has(r.config, "_retry") THEN r.config
          ELSE [url |-> r.config.url, _retry |-> 0]
    IN  IF o.kind = "noconfig"
        THEN [r EXCEPT !.pc = "rejected", !.log = Append(@, o)]
        ELSE IF shouldRetry(o) /\ originalRequest._retry < MAX_RETRIES
        THEN [r EXCEPT !.pc = "delay", !.log = Append(@, o),
                       !.config = [originalRequest EXCEPT !._retry = @ + 1],
                       !.delays = Append(@, RETRY_DELAY * (originalRequest._retry + 1))]
        ELSE [r EXCEPT !.pc = "rejected", !.log = Append(@, o),
                       !.config = originalRequest]

\* the fulfilled handler of the response interceptor
onFulfilled(r, o) == [r EXCEPT !.pc = "resolved", !.log = Append(@, o)]

InitApi ==
    /\ InitRest
    /\ args \in ApiArgs
    /\ result = NewRequest(args.url)

\* this.client.get(url, config)
Api_Send ==
    /\ result.pc = "idle"
    /\ result' = [result EXCEPT !.pc = "sent", !.attempts = @ + 1]
    /\ UNCHANGED <<args, relayVars, envVars, clientVars>>

\* the attempt ends and the response interceptor runs
Api_Response ==
    /\ result.pc = "sent"
    /\ \E o \in ApiOutcomes :
         result' = IF IsSuccess(o) THEN onFulfilled(result, o) ELSE onRejected(result, o)
    /\ UNCHANGED <<args, relayVars, envVars, clientVars>>

\* the retry delay elapses: resolve(this.client(originalRequest))
Api_Retry ==
    /\ result.pc = "delay"
    /\ result' = [result EXCEPT !.pc = "sent", !.attempts = @ + 1]
    /\ UNCHANGED <<args, relayVars, envVars, clientVars>>

NextApi ==
    \/ Api_Send
    \/ Api_Response
    \/ Api_Retry

SpecApi == InitApi /\ [][NextApi]_vars

(***************************************************************************)
(* Both generators, one call of either                                     *)
(***************************************************************************)

InitGenerators == InitSession \/ InitGenerate

NextGenerators ==
    \/ args.fn = "generateLineContentStream" /\ NextSession
    \/ args.fn = "generateLineContent" /\ NextGenerate

SpecGenerators == InitGenerators /\ [][NextGenerators]_vars

(***************************************************************************)
(* BlogScraper: one call of scrape() and the fallback content of a 403     *)
(***************************************************************************)

\* a URL is held as url.split('/'); a part is a sequence of characters,
\* the scheme and the host are one cell each
Chars == { "p", "-", "+", "%", "2", "0" }
Origin == << << "https:" >>, <<>>, << "host" >> >>
ScrapeUrls ==
    { Origin }
    \cup { Origin \o << p >> : p \in SeqsUpTo(Chars, MaxPartLen) }
    \cup { Origin \o << p, <<>> >> : p \in SeqsUpTo(Chars, MaxPartLen) }

\* the character an escape sequence %xy of Chars stands for
Unescape(x, y) ==
    IF x = "2" /\ y = "0" THEN " "
    ELSE IF x = "2" /\ y = "2" THEN "\""
    ELSE IF x = "0" /\ y = "0" THEN "NUL"
    ELSE "STX"

\* decodeURIComponent: a % that is not followed by two hexadecimal digits
\* (0 and 2 among Chars) makes it throw a URIError
RECURSIVE decodeURIComponent(_)
decodeURIComponent(s) ==
    IF s = <<>> THEN [threw |-> FALSE, value |-> <<>>]
    ELSE IF Head(s) # "%"
         THEN LET r == decodeURIComponent(Tail(s))
              IN  IF r.threw THEN r
                  ELSE [threw |-> FALSE, value |-> << Head(s) >> \o r.value]
    ELSE IF Len(s) < 3 \/ s[2] \notin { "0", "2" } \/ s[3] \notin { "0", "2" }
         THEN [threw |-> TRUE, value |-> <<>>]
    ELSE LET r == decodeURIComponent(SubSeq(s, 4, Len(s)))
         IN  IF r.threw THEN r
             ELSE [threw |-> FALSE, value |-> << Unescape(s[2], s[3]) >> \o r.value]

\* .replace(/-/g, ' ') and .replace(/\+/g, ' ')
ReplaceChar(s, from) == [k \in 1 .. Len(s) |-> IF s[k] = from THEN " " ELSE s[k]]

\* .replace(/%20/g, ' ')
RECURSIVE ReplaceEscapedSpace(_)
ReplaceEscapedSpace(s) ==
    IF s = <<>> THEN <<>>
    ELSE IF Len(s) >= 3 /\ SubSeq(s, 1, 3) = << "%", "2", "0" >>
         THEN << " " >> \o ReplaceEscapedSpace(SubSeq(s, 4, Len(s)))
    ELSE << Head(s) >> \o ReplaceEscapedSpace(Tail(s))

\* charAt(0).toUpperCase() followed by slice(1)
Capitalize(s) ==
    IF s = <<>> THEN <<>>
    ELSE << IF Head(s) = "p" THEN "P" ELSE Head(s) >> \o Tail(s)

\* urlParts[urlParts.length - 2] || urlParts[urlParts.length - 1]
LastPart(url) ==
    IF Len(url) >= 2 /\ url[Len(url) - 1] # <<>> THEN url[Len(url) - 1]
    ELSE url[Len(url)]

\* _createFallbackContent(): [threw, value]
BlogScraper_createFallbackContent(url) ==
    LET decoded == decodeURIComponent(LastPart(url))
        title   == Capitalize(ReplaceChar(ReplaceEscapedSpace(ReplaceChar(decoded.value, "-")), "+"))
    IN  IF decoded.threw THEN [threw |-> TRUE, value |-> "URIError"]
        ELSE [threw |-> FALSE,
              value |-> [kind |-> "fallback", title |-> title, url |-> url, images |-> <<>>]]

\* what axios.get can end with: a 2xx response, a response with an error
\* status, or an error without a response (status undefined)
NoStatus == 0
HttpOutcomes ==
    { [kind |-> "response", status |-> 200] }
    \cup { [kind |-> "axios", status |-> st] : st \in { Forbidden, 404, 500, NoStatus } }

NoFailure == [kind |-> "none", status |-> NoStatus]
ScrapeArgs == { [fn |-> "scrape", url |-> u] : u \in ScrapeUrls }
NewScrape ==
    [pc |-> "first", requests |-> <<>>, failures |-> <<>>, error |-> NoFailure,
     outcome |-> "none", value |-> "none"]

\* axios.get(this.url, { timeout }) and, in the inner catch, the same with
\* this.headers; the error of the second request reaches the outer catch
ScrapeRequest(r, headers, o) ==
    LET sent == [r EXCEPT !.requests = Append(@, [headers |-> headers])]
    IN  IF o.kind = "response" THEN [sent EXCEPT !.pc = "extract"]
        ELSE IF headers
             THEN [sent EXCEPT !.pc = "catch", !.failures = Append(@, o), !.error = o]
        ELSE [sent EXCEPT !.pc = "second", !.failures = Append(@, o)]

\* cheerio.load and the three extractors: the scraped content, or an error
\* that is not an axios error
ScrapeExtract(r, ok) ==
    IF ok THEN [r EXCEPT !.pc = "done", !.outcome = "returned",
                         !.value = [kind |-> "scraped"]]
    ELSE [r EXCEPT !.pc = "catch", !.error = [kind |-> "other", status |-> NoStatus]]

\* the outer catch of scrape()
ScrapeCatch(r, url) ==
    IF r.error.kind = "axios" /\ r.error.status = Forbidden
    THEN LET f == BlogScraper_createFallbackContent(url)
         IN  IF f.threw THEN [r EXCEPT !.pc = "done", !.outcome = "threw", !.value = f.value]
             ELSE [r EXCEPT !.pc = "done", !.outcome = "returned", !.value = f.value]
    ELSE [r EXCEPT !.pc = "done", !.outcome = "threw", !.value = "Error"]

InitScrape ==
    /\ InitRest
    /\ args \in ScrapeArgs
    /\ result = NewScrape

Scrape_FirstRequest ==
    /\ result.pc = "first"
    /\ \E o \in HttpOutcomes : result' = ScrapeRequest(result, FALSE, o)
    /\ UNCHANGED <<args, relayVars, envVars, clientVars>>

Scrape_SecondRequest ==
    /\ result.pc = "second"
    /\ \E o \in HttpOutcomes : result' = ScrapeRequest(result, TRUE, o)
    /\ UNCHANGED <<args, relayVars, envVars, clientVars>>

Scrape_Extract ==
    /\ result.pc = "extract"
    /\ \E ok \in BOOLEAN : result' = ScrapeExtract(result, ok)
    /\ UNCHANGED <<args, relayVars, envVars, clientVars>>

Scrape_Catch ==
    /\ result.pc = "catch"
    /\ result' = ScrapeCatch(result, args.url)
    /\ UNCHANGED <<args, relayVars, envVars, clientVars>>

NextScrape ==
    \/ Scrape_FirstRequest
    \/ Scrape_SecondRequest
    \/ Scrape_Extract
    \/ Scrape_Catch

SpecScrape == InitScrape /\ [][NextScrape]_vars

(***************************************************************************)
(* Properties                                                              *)
(***************************************************************************)

Terminal == {"complete", "error"}
Status(i) == At(variationStates, i).status
Progress(i) == At(variationStates, i).progress
OpenSources == { s \in 1 .. Len(sources) : sources[s].readyState = "open" }
SentinelCount(o) == Cardinality({ k \in 1 .. Len(o) : o[k] = Sentinel })
\* the text accumulated by the handler of the source of index i
Accumulated(i) == sources[At(eventSourceRefs, i)].accumulatedText

\* C1: every relay invocation writes the sentinel exactly once before the
\* response is closed: never twice, and once when res.end() has been called.
C1_SentinelExactlyOnce ==
    /\ SentinelCount(out) <= 1
    /\ ended > 0 => SentinelCount(out) = 1

\* C2: while a session is Loading its stored progress never decreases.
C2_ProgressNonDecreasing ==
    [][\A i \in Indexes :
          (Status(i) = "loading" /\ At(variationStates', i).status = "loading")
             => At(variationStates', i).progress >= Progress(i)]_vars

\* C3: once handleCancelStream has run, onStreamComplete is not invoked and
\* no new channel is opened.
C3_NothingAfterCancel ==
    [][cancelled => /\ Len(completeCalls') = Len(completeCalls)
                    /\ Len(sources') = Len(sources)]_vars

\* C4: at most one session is Loading and at most one EventSource is open.
C4_OneAtATime ==
    /\ Cardinality({ i \in Indexes : Status(i) = "loading" }) <= 1
    /\ Cardinality(OpenSources) <= 1

C4_Witness ==
    /\ Status(0) \in Terminal
    /\ Status(1) = "loading"
    /\ OpenSources = {2}

\* C5: a session that ended by error has the fallback string (with the title
\* and its number) as its content in the aggregated result, and the sessions
\* after it have run to a terminal state.
C5_FallbackInResult ==
    \A n \in 1 .. Len(completeCalls) : \A i \in Indexes :
        Status(i) = "error" =>
           /\ At(completeCalls[n], i).content = FallbackContent(i, props.title)
           /\ \A j \in Indexes : j > i => Status(j) \in Terminal

\* C6: in the aggregated result, content[i] is the concatenation of the token
\* deltas received on session i's channel, or the fallback string when the
\* session ended by error.
C6_ContentIsAccumulatedText ==
    \A n \in 1 .. Len(completeCalls) : \A i \in Indexes :
        At(completeCalls[n], i).content =
            IF Status(i) = "error" THEN FallbackContent(i, props.title)
            ELSE Accumulated(i)

\* C7: for a request that is not cancelled, the array passed to
\* onStreamComplete has exactly 3 entries.
C7_ThreeEntries ==
    ~cancelled => \A n \in 1 .. Len(completeCalls) : Len(completeCalls[n]) = 3

C7_Witness ==
    /\ ~cancelled
    /\ Len(completeCalls) = 1
    /\ \E i \in Indexes : Status(i) = "error"
    /\ \E i \in Indexes : Status(i) = "complete"

\* C8: onStreamComplete is invoked at most once, and only in a step taken
\* when all three sessions are already terminal.
C8_CompleteOnceAfterAll ==
    [][Len(completeCalls') # Len(completeCalls) =>
          /\ completeCalls = <<>>
          /\ Len(completeCalls') = 1
          /\ \A i \in Indexes : Status(i) \in Terminal]_vars

C8_Witness ==
    /\ Len(completeCalls) = 1
    /\ \A i \in Indexes : Status(i) = "complete"

\* C9: when onStreamComplete has been invoked, every session is Complete or
\* Error; none is Pending or Loading.
C9_AllTerminalAtCompletion ==
    completeCalls # <<>> =>
        \A i \in Indexes : Status(i) \notin {"pending", "loading"}

C9_Witness ==
    /\ completeCalls # <<>>
    /\ \A i \in Indexes : Status(i) = "error"

\* C10: channels are opened in the order 0, 1, 2, and the channel of session
\* i+1 is opened only by an elapsed settle timer, when session i is terminal
\* and every earlier channel is closed.
C10_Sequencing ==
    [][Len(sources') # Len(sources) =>
          LET i == sources'[Len(sources')].index IN
          /\ Len(sources') = Len(sources) + 1
          /\ i = Len(sources)
          /\ i > 0 => /\ timers[i] > 0
                      /\ Status(i - 1) \in Terminal
                      /\ OpenSources = {}]_vars

C10_Witness ==
    /\ Len(sources) = 3
    /\ sources[3].index = 2
    /\ sources[3].readyState = "open"

\* C11: the markdown is the content, then one image reference per selected
\* image in selection order, then the source link last when one is given;
\* with no image and no link it is the content unchanged.
C11_MarkdownLayout ==
    result.pc \in {"client", "server"} =>
        LET m == result.markdown
            n == Len(args.content)
            k == Len(args.images)
        IN  /\ Len(m) = n + 5 * k + (IF args.blogUrl # "" THEN 3 ELSE 0)
            /\ SubSeq(m, 1, n) = args.content
            /\ \A j \in 1 .. k :
                  /\ m[n + 5 * (j - 1) + 2] = ToString(j)
                  /\ m[n + 5 * (j - 1) + 4] = args.images[j]
            /\ args.blogUrl # "" => m[n + 5 * k + 2] = args.blogUrl
            /\ (k = 0 /\ args.blogUrl = "") => m = args.content

C11_Witness ==
    /\ result.pc = "client"
    /\ args.images = <<"img2", "img1">>
    /\ args.blogUrl # ""
    /\ args.content # <<>>

\* what the relay has written, by kind
Kind(m) == IF m.data = "json" THEN m.type ELSE m.data
Count(o, t) == Cardinality({ k \in 1 .. Len(o) : Kind(o[k]) = t })
Called(c) == \E k \in 1 .. Len(calls) : calls[k] = c

\* C12: when the scrape succeeds with content shorter than the minimum
\* length, the relay writes scraping_warning and no scraped_content.
C12_ShortContentWarns ==
    (Called(ScrapeCall("short")) \/ Called(ScrapeCall("empty"))) =>
        /\ Count(out, "scraping_warning") = 1
        /\ Count(out, "scraped_content") = 0

\* C13: with pre-scraped content in the request data the relay does not call
\* the scraper.
C13_PrescrapedSkipsScrape ==
    (relay.pc # "ended" /\ relay.prescraped) =>
        \A o \in {"long", "short", "empty", "throw"} : ~Called(ScrapeCall(o))

\* C14: when the scrape throws, the relay writes exactly one
\* scraping_warning and no scraped_content, does not take the outer catch,
\* and by the time it ends has written variation_info and
\* generation_starting and invoked the generation session.
C14_ScrapeThrowContinues ==
    Called(ScrapeCall("throw")) =>
        /\ Count(out, "scraping_warning") = 1
        /\ Count(out, "scraped_content") = 0
        /\ relay.pc # "outer_catch"
        /\ ended > 0 => /\ Count(out, "generation_starting") = 1
                        /\ Count(out, "variation_info") >= 1
                        /\ Called(Call("generate"))

\* C15: when the generation session throws, the relay writes exactly one
\* error event, after everything already relayed, then the sentinel, and the
\* outer catch is not taken.
C15_SessionThrowReported ==
    Called(Call("throw")) =>
        /\ relay.pc # "outer_catch"
        /\ \A k \in 1 .. Len(out) : out[k] # ErrorEvent("streaming")
        /\ relay.pc \in {"end", "ended"} =>
              /\ Len(out) >= 2
              /\ out[Len(out)] = Sentinel
              /\ out[Len(out) - 1] = ErrorEvent("generation")
              /\ Count(out, "error") = 1
              /\ Count(out, "[DONE]") = 1

C15_Witness ==
    /\ Called(Call("throw"))
    /\ ended = 1
    /\ Count(out, "response.output_text.delta") >= 1

\* C16: the retry after blank content has a maximum attempt count: while
\* generateLineContent is still at its first variation (i = 0) the number
\* of backend calls it has made stays below MaxBackendCalls.
C16_BoundedBackendCalls ==
    (result.pc = "loop" /\ result.i = 0) => result.apiCalls < MaxBackendCalls

\* C17: a started request gives its caller exactly one of onStreamComplete
\* and onStreamError; the part refutable on a finite run is that the two
\* callbacks together are never invoked more than once.
C17_ExactlyOneCallback == Len(completeCalls) + errorCalls <= 1

\* C18: after handleCancelStream no session has status loading, and
\* onStreamError has been invoked exactly once.
C18_CancelledIsTerminal ==
    cancelled => /\ \A i \in Indexes : Status(i) # "loading"
                 /\ errorCalls = 1

\* the events of kind t among the events the session has yielded
Yielded(t) == Count(result.yields, t)
InPrompt(x) == \E k \in 1 .. Len(result.prompt) : result.prompt[k] = x

\* C21: with enhancement requested, once the lookup is over the session has
\* yielded web_search_error and no web_search_complete if the lookup's
\* backend call failed, and web_search_complete if it succeeded; in both
\* cases it goes on (it is never thrown before variation_info is yielded).
C21_WebSearchOutcomeReported ==
    /\ (result.lookup = "reject") =>
           Yielded("web_search_error") = 1 /\ Yielded("web_search_complete") = 0
    /\ (result.lookup \in {"summary", "blank"}) =>
           Yielded("web_search_complete") = 1 /\ Yielded("web_search_error") = 0
    /\ (result.pc = "thrown") => Yielded("variation_info") = 1

\* C22: once the prompt is built, it contains the summary of a lookup that
\* succeeded with a non-empty summary, and it has no web-search section
\* when no lookup was made or the lookup failed.
C22_PromptCarriesSummary ==
    result.pc \in {"open", "events", "returned", "thrown"} =>
        /\ (result.lookup = "summary") => InPrompt(WebSummary)
        /\ (result.lookup \in {"none", "reject"}) => ~InPrompt("# web search")

\* C23: a session that has thrown is one whose backend stream was never
\* opened.
C23_ThrowsOnlyOnOpen == (result.pc = "thrown") => ~result.opened

\* C24: variation_info is yielded before any backend event; the backend
\* events yielded are the events that arrived, in arrival order;
\* variation_complete is yielded at most once, as the last event, exactly
\* when the session has returned, and never by a session that has thrown.
C24_SessionEventOrder ==
    /\ \A k \in 1 .. Len(result.yields) :
          result.yields[k] \in BackendEvents =>
              \E j \in 1 .. (k - 1) : result.yields[j] = Event("variation_info")
    /\ SelectSeq(result.yields, LAMBDA m : m \in BackendEvents) = result.arrived
    /\ Yielded("variation_complete") = (IF result.pc = "returned" THEN 1 ELSE 0)
    /\ (result.pc = "returned") =>
           result.yields[Len(result.yields)] = Event("variation_complete")

C24_Witness ==
    /\ result.pc = "returned"
    /\ result.arrived = << DeltaEvent(<<"b", "c">>), DeltaEvent(<<"a">>) >>
    /\ Yielded("web_search_complete") = 1

\* C25: in a step in which variation_complete reaches the handler of an
\* open source whose session is loading, the session's progress becomes
\* 100, its status becomes complete, and the start of the next index is
\* scheduled.
C25_VariationCompleteCompletes ==
    [][\A s \in 1 .. Len(sources) :
         ( /\ sources[s].readyState = "open"
           /\ sources[s].relay.pc = "gen_events"
           /\ sources'[s].relay.pc = "done"
           /\ Status(sources[s].index) = "loading" )
         => /\ At(variationStates', sources[s].index).progress = 100 * Scale
            /\ At(variationStates', sources[s].index).status = "complete"
            /\ timers'[sources[s].index + 1] > timers[sources[s].index + 1]]_vars

\* C27: a step in which the handler of a source runs (a message or a
\* connection error of session i) leaves the status, the progress and the
\* displayed text of every other session unchanged.
C27_OtherSessionsUntouched ==
    [][\A s \in 1 .. Len(sources) :
         ( /\ Len(sources') = Len(sources)
           /\ sources'[s] # sources[s]
           /\ cancelled' = cancelled
           /\ completeCalls' = completeCalls )
         => \A j \in Indexes \ {sources[s].index} :
               /\ At(variationStates', j) = At(variationStates, j)
               /\ At(streamedContents', j) = At(streamedContents, j)]_vars

\* C30: the progress of every session is an integer between 0 and 100
\* (a progress p is held as p * Scale, so p is an integer exactly when the
\* held value is a multiple of Scale).
C30_ProgressIsInteger ==
    \A i \in Indexes :
        /\ Progress(i) % Scale = 0
        /\ 0 <= Progress(i)
        /\ Progress(i) <= 100 * Scale

\* a step of SpecChannel in which a message is delivered, and that message
Delivered == result' # result
LastDelivered == result.log[Len(result.log)]
RECURSIVE DeltaText(_)
\* the concatenation of the token deltas of a log, in order
DeltaText(log) ==
    IF log = <<>> THEN <<>>
    ELSE DeltaText(SubSeq(log, 1, Len(log) - 1))
         \o (IF Kind(log[Len(log)]) = "response.output_text.delta"
              THEN log[Len(log)].delta ELSE <<>>)

C28_DeltasAccumulate ==
    result.source # 0 =>
        /\ sources[result.source].accumulatedText = DeltaText(result.log)
        /\ Kind(LastDelivered) = "response.output_text.delta" =>
               Progress(sources[result.source].index) <= 95 * Scale

C28_Witness ==
    /\ result.source # 0
    /\ result.log = << DeltaEvent(<<"a">>), DeltaEvent(LongDelta) >>
    /\ sources[result.source].accumulatedText = <<"a">> \o LongDelta
    /\ Progress(sources[result.source].index) = 95 * Scale

\* C29: a step that delivers a message that is not JSON changes no
\* session's status, progress or text and leaves the source open; and a
\* token delta delivered after such a message is still appended.
C29_MalformedDropped ==
    [][Delivered =>
         /\ (LastDelivered' = Malformed) =>
               /\ variationStates' = variationStates
               /\ streamedContents' = streamedContents
               /\ sources' = sources
               /\ sources'[result'.source].readyState = "open"
         /\ ( /\ Kind(LastDelivered') = "response.output_text.delta"
              /\ Count(result.log, "malformed") > 0
              /\ result.source = result'.source ) =>
               sources'[result'.source].accumulatedText =
                   sources[result'.source].accumulatedText \o LastDelivered'.delta]_vars

C29_Witness ==
    /\ result.source # 0
    /\ result.log = << Malformed, DeltaEvent(<<"a">>) >>
    /\ sources[result.source].accumulatedText = <<"a">>
    /\ sources[result.source].readyState = "open"
    /\ Status(sources[result.source].index) = "loading"

RECURSIVE TemperatureFrom(_)
\* 0.7 at index 0, and the value of the index before plus 0.1 (in tenths)
TemperatureFrom(i) == IF i = 0 THEN 7 ELSE TemperatureFrom(i - 1) + 1

\* C31: every backend request of either generator carries the temperature
\* that starts at 0.7 for index 0 and grows by exactly 0.1 per index, so
\* the value for index i+1 is strictly above the one for index i.
C31_TemperatureIncrement ==
    \A k \in 1 .. Len(result.requests) :
        /\ result.requests[k].temperature = TemperatureFrom(result.requests[k].i)
        /\ \A j \in 1 .. Len(result.requests) :
              result.requests[j].i = result.requests[k].i + 1 =>
                  result.requests[j].temperature = result.requests[k].temperature + 1

C31_Witness ==
    /\ args.fn = "generateLineContent"
    /\ result.pc = "returned"
    /\ Len(result.requests) = 4
    /\ \E k \in 1 .. 3 : result.requests[k].i = result.requests[k + 1].i
    /\ result.requests[4].temperature = 9

\* C32: generateAllVariationsWithStreaming invokes at most one callback of
\* onComplete and onError, and exactly one once it has returned; onComplete
\* gets three variations, the k-th made from the text of session k-1; when
\* a session has thrown, onError is invoked, nothing is delivered to
\* onComplete and no later session has been started.
C32_ExactlyOneCallback ==
    /\ Len(result.completeCalls) + result.errorCalls <= 1
    /\ (result.pc = "returned") => Len(result.completeCalls) + result.errorCalls = 1
    /\ \A c \in 1 .. Len(result.completeCalls) :
          /\ Len(result.completeCalls[c]) = 3
          /\ \A k \in 1 .. 3 :
                result.completeCalls[c][k].content \in
                    { result.texts[k], DefaultContent(k - 1, args.title) }
    /\ (result.session.pc = "thrown") <=> (result.errorCalls = 1)
    /\ (result.session.pc = "thrown") =>
          /\ result.completeCalls = <<>>
          /\ result.started = result.session.variationIndex + 1

C32_Witness ==
    /\ result.pc = "returned"
    /\ result.errorCalls = 1
    /\ result.session.variationIndex = 1
    /\ Len(result.variations) = 1

\* C37: a session that ended without throwing and with blank text is not
\* run again (one session per index), its variation is the default text
\* with the title and the number i+1, and the loop has moved on.
C37_BlankGetsDefault ==
    /\ result.started = (IF result.pc = "loop" THEN result.i
                          ELSE result.session.variationIndex + 1)
    /\ Len(result.variations) = result.i
    /\ \A k \in 1 .. Len(result.variations) :
          IsBlank(result.texts[k]) =>
              /\ result.variations[k].content = DefaultContent(k - 1, args.title)
              /\ \E n \in 1 .. Len(result.variations[k].content) :
                    result.variations[k].content[n] = args.title
              /\ \E n \in 1 .. Len(result.variations[k].content) :
                    result.variations[k].content[n] = ToString(k)

C37_Witness ==
    /\ result.pc = "returned"
    /\ Len(result.completeCalls) = 1
    /\ result.texts[2] = << " ", " " >>
    /\ result.variations[2].content = DefaultContent(1, args.title)
    /\ result.variations[1].content = << "a" >>

\* an attempt that ended with a network error, a timeout or a 5xx response
Retryable(o) ==
    o.kind \in {"network", "timeout"}
    \/ (o.kind = "response" /\ o.status \in 500 .. 599)

\* C33: one request is sent at most 1 + MAX_RETRIES = 3 times; an attempt
\* is followed by another one only if it ended with a network error, a
\* timeout or a 5xx response; and a request whose last allowed attempt has
\* failed is rejected, not retried.
C33_BoundedRetries ==
    /\ result.attempts <= 1 + MAX_RETRIES
    /\ result.attempts <= 3
    /\ \A k \in 1 .. Len(result.log) :
          k < result.attempts => Retryable(result.log[k])
    /\ (result.pc = "delay") => result.attempts < 3
    /\ (Len(result.log) = 3 /\ ~IsSuccess(result.log[3])) => result.pc = "rejected"
    /\ (result.pc = "rejected") => ~IsSuccess(result.log[Len(result.log)])

C33_Witness ==
    /\ result.pc = "rejected"
    /\ result.attempts = 3
    /\ result.log = << [kind |-> "network", status |-> 0],
                       [kind |-> "response", status |-> 599],
                       [kind |-> "timeout", status |-> 0] >>

\* C34: once the component has unmounted, no channel is opened and
\* onStreamComplete is not invoked; and at no time, restarts included, are
\* two channels open.
C34_CleanupStopsRun ==
    /\ [][result.pc = "unmounted" =>
             /\ Len(sources') = Len(sources)
             /\ Len(completeCalls') = Len(completeCalls)]_vars
    /\ [](Cardinality(OpenSources) <= 1)

\* C35: within one request no index has two EventSources; a closed
\* EventSource stays closed; and every step that schedules the start of
\* index k schedules it once and is the step in which the open EventSource
\* of index k-1 is closed, so each session ends by one path only and moves
\* the sequencer on once.
C35_OneTerminalTransition ==
    /\ [](\A i \in Indexes :
            Cardinality({ s \in 1 .. Len(sources) : sources[s].index = i }) <= 1)
    /\ [](\A k \in 1 .. NumVariations : timers[k] <= 1)
    /\ [][/\ \A s \in 1 .. Len(sources) :
              sources[s].readyState = "closed" => sources'[s].readyState = "closed"
          /\ \A k \in 1 .. NumVariations :
              timers'[k] > timers[k] =>
                  \E s \in 1 .. Len(sources) :
                      /\ sources[s].index = k - 1
                      /\ sources[s].readyState = "open"
                      /\ sources'[s].readyState = "closed"]_vars

C35_Witness ==
    /\ completeCalls # <<>>
    /\ Len(sources) = 3
    /\ Status(0) = "error"
    /\ Status(1) = "complete"
    /\ Status(2) = "error"
    /\ \A k \in 1 .. NumVariations : timers[k] = 0

\* C36: a request without usable request data, or made while the API key is
\* not configured, gets exactly one error event: when the response is about
\* to be closed nothing else has been written and neither the scraper nor
\* the generator has been called, and a response that starts with such an
\* error event holds nothing else and is closed once.
C36_RejectedEarly ==
    /\ (relay.pc = "end" /\ relay.data \in {"missing", "notstring"}) =>
           out = << ErrorEvent("request") >> /\ calls = <<>>
    /\ (relay.pc = "end" /\ relay.data = "json" /\ ~openaiApiKey) =>
           out = << ErrorEvent("apikey") >> /\ calls = <<>>
    /\ (relay.pc # "start" /\ relay.pc # "ended" /\ relay.data = "json" /\ ~openaiApiKey) =>
           relay.pc = "end"
    /\ (out # <<>> /\ Kind(out[1]) = "error" /\ out[1].error \in {"request", "apikey"}) =>
           /\ Len(out) = 1
           /\ Count(out, "process_start") = 0
           /\ calls = <<>>
           /\ relay.pc \in {"end", "ended"}
           /\ (relay.pc = "ended") => ended = 1

C36_Witness ==
    /\ ~openaiApiKey
    /\ relay.pc = "ended"
    /\ ended = 1
    /\ out = << ErrorEvent("apikey") >>
    /\ calls = <<>>

\* C38: scrape() sends at most two requests, the first without and the
\* second with the browser headers, the second only after the first failed;
\* a scrape that failed with a 403 response returns the fallback content,
\* a scrape that failed in any other way throws.
C38_TwoRequestsFallbackOn403 ==
    args.fn = "scrape" =>
      /\ Len(result.requests) <= 2
      /\ (Len(result.requests) >= 1) => ~result.requests[1].headers
      /\ (Len(result.requests) = 2) =>
             result.requests[2].headers /\ Len(result.failures) >= 1
      /\ (result.pc = "done" /\ result.error # NoFailure) =>
             IF result.error.kind = "axios" /\ result.error.status = Forbidden
             THEN result.outcome = "returned" /\ result.value.kind = "fallback"
             ELSE result.outcome = "threw"

\* C19: on a run past validation the messages are process_start, then one
\* of scraped_content / scraping_warning, then variation_info, then
\* generation_starting, then the session's events, then at most one error,
\* and the sentinel last.
C19_MessageOrder ==
    (Len(out) >= 1 /\ Kind(out[1]) = "process_start") =>
        /\ Len(out) >= 2 => Kind(out[2]) \in {"scraped_content", "scraping_warning"}
        /\ Len(out) >= 3 => Kind(out[3]) = "variation_info"
        /\ Len(out) >= 4 => Kind(out[4]) = "generation_starting"
        /\ Count(out, "process_start") = 1
        /\ Count(out, "scraped_content") + Count(out, "scraping_warning") <= 1
        /\ Count(out, "error") <= 1
        /\ \A k \in 1 .. Len(out) :
              /\ Kind(out[k]) = "[DONE]" => k = Len(out)
              /\ Kind(out[k]) = "error" => k >= Len(out) - 1
        /\ ended > 0 => /\ Len(out) >= 5
                        /\ out[Len(out)] = Sentinel

\* C20: every relay invocation closes the response exactly once: res.end()
\* is never called twice, and it is eventually called.
C20_ClosedExactlyOnce == [](ended <= 1) /\ <>(ended = 1)

C20_Witness ==
    /\ ended = 1
    /\ relay.pc = "ended"
    /\ Count(out, "[DONE]") = 0
    /\ Count(out, "error") = 1

====
